---- MODULE Spec2Model ----
(***************************************************************************)
(* Model of the aggregation layer of the supersonic media providers:       *)
(*   jellyfinMediaProvider.SetFavorite   (batched favorite toggle)         *)
(*   jellyfinMediaProvider.GetFavorites  (parallel favorites retrieval)    *)
(*   jellyfinMediaProvider.GetGenres     (time-bounded genre cache)        *)
(*   subsonicMediaProvider.SearchAll     (federated search)                *)
(* Every operation has its own specification; the variables of the other   *)
(* operations stay at their initial value in it.                           *)
(*                                                                         *)
(* Goroutines are modelled at the granularity of their shared-memory and   *)
(* backend accesses: one step per backend call start, per backend call     *)
(* return, per read or write of a captured variable; the wg.Done() that     *)
(* ends a goroutine belongs to the goroutine's last step.                  *)
(* An error value is named by the backend call that produced it.           *)
(***************************************************************************)
EXTENDS Integers, Sequences, FiniteSets, TLC

\* ------------------------------------------------------------------------
\* Bounds of the model
\* ------------------------------------------------------------------------
MaxAlbumIDs == 4
MaxFavorites == 2
MaxGenres == 2
MaxClock == 125
MaxPlaylists == 2
MaxMaxResults == 4
MaxNegative == 2
MaxPlaylistTracks == 2
MaxRecords == 2

\* ------------------------------------------------------------------------
\* Values shared by the operations
\* ------------------------------------------------------------------------
\* error values are pairs <<kind, producing call>>; the nil error:
Nil == <<"nil", 0>>
\* a variable not assigned yet, a function that has not returned yet
Unset == <<"unset", 0>>

Min(a, b) == IF a < b THEN a ELSE b

\* int(math.Ceil(float64(n) / float64(d))) for n >= 0, d > 0
CeilDiv(n, d) == IF n % d = 0 THEN n \div d ELSE (n \div d) + 1

VARIABLES
    \* ---- SetFavorite ----
    sfPc,        \* position of the calling goroutine in SetFavorite
    allIDs,      \* albums ++ artists ++ tracks
    sfBatch,     \* loop variable i of the batch loop
    sfI,         \* loop variable i of batchSetFavorite
    sfWg,        \* counter of the current batch's sync.WaitGroup
    sfErr,       \* captured variable err: Nil or the index of the call whose error it holds
    sfG,         \* idx -> position of the goroutine started for allIDs[idx]
    sfNewErr,    \* idx -> the goroutine's local newErr
    sfCalls,     \* idx -> the IDs client.SetFavorite was called with by goroutine idx
    sfRet,       \* value returned by SetFavorite
    \* ---- GetFavorites ----
    gfPc,        \* position of the calling goroutine in GetFavorites
    gfI,         \* number of goroutines started so far
    gfWg,        \* counter of the sync.WaitGroup
    gfG,         \* category -> position of the goroutine of that sub-query
    gfGot,       \* category -> what the backend call returned: [list, err]
    favorites,   \* the local mediaprovider.Favorites the goroutines fill
    gfRet,       \* value returned by GetFavorites: [favorites, err]
    \* ---- GetGenres ----
    now,             \* what time.Now().Unix() returns
    genresCached,    \* field genresCached of the provider
    genresCachedAt,  \* field genresCachedAt of the provider
    ggPc,            \* caller -> position in GetGenres
    ggG,             \* caller -> its local g, the backend's answer
    ggRet,           \* caller -> value its last GetGenres call returned: [list, err]
    ggIssued,        \* caller -> backend calls issued by its current or last call
    ggEntry,         \* caller -> what held when its current or last call was entered
    lastFetch,       \* the last successful fetch: its list and completion time
    ggFirst,         \* how the first call on the provider was answered
    ggPrevFailed,    \* the last call that ended on the provider ended with a failed fetch
    \* ---- SearchAll ----
    saPc,         \* position of the calling goroutine in SearchAll
    searchQuery,  \* parameter searchQuery
    maxResults,   \* parameter maxResults
    saCount,      \* local count of the Search3 goroutine, as a number
    saI,          \* number of goroutines started so far
    saWg,         \* counter of the sync.WaitGroup
    saG,          \* sub-query -> position of its goroutine
    saGot,        \* sub-query -> what its backend call returned
    saErr,        \* captured variable err
    saResult,     \* captured variable result
    saPlaylists,  \* captured variable playlists
    saGenres,     \* captured variable genres
    saRet,        \* value returned by SearchAll: [results, err]
    \* ---- ReplacePlaylistTracks ----
    rpPc,            \* position of the caller in ReplacePlaylistTracks
    playlistTracks,  \* the track IDs the server holds for the playlist
    rpOriginal,      \* the track IDs the playlist held when the call was entered
    rpTrackIDs,      \* parameter trackIDs
    rpTrs,           \* local trs
    rpIdsToDelete,   \* local idsToDelete
    rpErr,           \* local err
    rpCalls,         \* the backend calls made so far, in order
    rpRet,           \* value returned by ReplacePlaylistTracks
    \* ---- the record adapters, applied to a slice ----
    adPc,    \* position of the goroutine that maps a slice of backend records
    adKind,  \* the adapter applied: "Track", "Album", "Artist" or "Playlist"
    adIn,    \* the slice of pointers to backend records
    adOut    \* the domain records made so far

sfVars == <<sfPc, allIDs, sfBatch, sfI, sfWg, sfErr, sfG, sfNewErr, sfCalls, sfRet>>

gfVars == <<gfPc, gfI, gfWg, gfG, gfGot, favorites, gfRet>>

ggVars == <<now, genresCached, genresCachedAt, ggPc, ggG, ggRet, ggIssued, ggEntry,
            lastFetch, ggFirst, ggPrevFailed>>

saVars == <<saPc, searchQuery, maxResults, saCount, saI, saWg, saG, saGot, saErr, saResult,
            saPlaylists, saGenres, saRet>>

rpVars == <<rpPc, playlistTracks, rpOriginal, rpTrackIDs, rpTrs, rpIdsToDelete, rpErr,
            rpCalls, rpRet>>

adVars == <<adPc, adKind, adIn, adOut>>

vars == <<sfVars, gfVars, ggVars, saVars, rpVars, adVars>>

\* ------------------------------------------------------------------------
\* SetFavorite
\* ------------------------------------------------------------------------
batchSize == 5

\* the longest allIDs: the albums, one artist and one track
MaxIDs == MaxAlbumIDs + 2

\* goroutine indices are the 0-based indices of allIDs
Idx == 0 .. (MaxIDs - 1)

\* The ID lists a caller passes: n IDs of one kind, the third repeating the first
IDList(kind, n) == [i \in 1 .. n |-> <<kind, i % 2>>]

\* allIDs[idx] with Go's 0-based indexing
IDAt(idx) == allIDs[idx + 1]

\* error returned by the backend call of goroutine idx
ErrOf(idx) == <<"error", idx>>

numBatches == CeilDiv(Len(allIDs), batchSize)

SetFavoriteInit ==
    /\ sfPc = "idle"
    /\ allIDs = <<>>
    /\ sfBatch = 0
    /\ sfI = 0
    /\ sfWg = 0
    /\ sfErr = Nil
    /\ sfG = [idx \in Idx |-> "none"]
    /\ sfNewErr = [idx \in Idx |-> Unset]
    /\ sfCalls = [idx \in Idx |-> <<>>]
    /\ sfRet = Unset

\* (mutant) the batch loop gives up once an error has been recorded
EnterBatchFailFast(i, n) == IF i < n /\ sfErr = Nil THEN "spawn" ELSE "return"

\* the batch loop's test  i < numBatches
EnterBatchOrReturn(i, n) == IF i < n THEN "spawn" ELSE "return"

\* SetFavorite is entered: allIDs is built, err is nil, the batch loop starts
SetFavoriteEnter(ids) ==
    /\ sfPc = "idle"
    /\ allIDs' = ids
    /\ sfPc' = EnterBatchOrReturn(0, CeilDiv(Len(ids), batchSize))
    /\ sfBatch' = 0
    /\ sfI' = 0
    /\ sfWg' = 0
    /\ sfErr' = Nil
    /\ UNCHANGED <<sfG, sfNewErr, sfCalls, sfRet>>

\* SetFavorite is entered with some albums, with or without an artist and
\* with or without a track
SetFavoriteCall ==
    \E na \in 0 .. MaxAlbumIDs, nr \in {0, 1}, nt \in {0, 1} :
        SetFavoriteEnter(IDList("album", na) \o IDList("artist", nr) \o IDList("track", nt))

\* SetFavorite is entered with no ID, or with albums for a full batch and one more
SetFavoriteCallTwoBatches ==
    \E ids \in {<<>>, IDList("album", batchSize + 1)} : SetFavoriteEnter(ids)

\* (mutant) the loop test without the batch size
SpawnMoreUnbounded(offs, i) == offs + i < Len(allIDs)

\* loop test of batchSetFavorite:  i < batchSize && offs+i < len(allIDs)
SpawnMore(offs, i) == i < batchSize /\ offs + i < Len(allIDs)

\* one iteration of batchSetFavorite's loop: wg.Add(1); go func(idx){...}(offs+i)
SpawnOne ==
    /\ sfPc = "spawn"
    /\ SpawnMore(sfBatch * batchSize, sfI)
    /\ sfWg' = sfWg + 1
    /\ sfG' = [sfG EXCEPT ![sfBatch * batchSize + sfI] = "spawned"]
    /\ sfI' = sfI + 1
    /\ UNCHANGED <<sfPc, allIDs, sfBatch, sfErr, sfNewErr, sfCalls, sfRet>>

\* batchSetFavorite returns; the caller reaches wg.Wait()
SpawnDone ==
    /\ sfPc = "spawn"
    /\ ~SpawnMore(sfBatch * batchSize, sfI)
    /\ sfPc' = "wait"
    /\ UNCHANGED <<allIDs, sfBatch, sfI, sfWg, sfErr, sfG, sfNewErr, sfCalls, sfRet>>

\* (mutant) the caller does not wait for the batch
WaitReturnsAtOnce(wg) == TRUE

\* (mutant) the wait ends when a single goroutine is still running
WaitReturnsWithOneLeft(wg) == wg <= 1

\* wg.Wait() returns once the counter is zero
WaitReturns(wg) == wg = 0

\* wg.Wait() returns; next iteration of the batch loop with a new WaitGroup
BatchWait ==
    /\ sfPc = "wait"
    /\ WaitReturns(sfWg)
    /\ sfBatch' = sfBatch + 1
    /\ sfI' = 0
    /\ sfWg' = 0
    /\ sfPc' = EnterBatchOrReturn(sfBatch + 1, numBatches)
    /\ UNCHANGED <<allIDs, sfErr, sfG, sfNewErr, sfCalls, sfRet>>

\* return err
SetFavoriteReturn ==
    /\ sfPc = "return"
    /\ sfRet' = sfErr
    /\ sfPc' = "returned"
    /\ UNCHANGED <<allIDs, sfBatch, sfI, sfWg, sfErr, sfG, sfNewErr, sfCalls>>

\* goroutine idx issues j.client.SetFavorite(allIDs[idx], favorite)
FavCallStart(idx) ==
    /\ sfG[idx] = "spawned"
    /\ sfG' = [sfG EXCEPT ![idx] = "inflight"]
    /\ sfCalls' = [sfCalls EXCEPT ![idx] = Append(@, IDAt(idx))]
    /\ UNCHANGED <<sfPc, allIDs, sfBatch, sfI, sfWg, sfErr, sfNewErr, sfRet>>

\* the backend call of goroutine idx returns nil or an error
FavCallReturn(idx) ==
    /\ sfG[idx] = "inflight"
    /\ \E e \in {Nil, ErrOf(idx)} : sfNewErr' = [sfNewErr EXCEPT ![idx] = e]
    /\ sfG' = [sfG EXCEPT ![idx] = "test"]
    /\ UNCHANGED <<sfPc, allIDs, sfBatch, sfI, sfWg, sfErr, sfCalls, sfRet>>

\* (mutant) the condition without  err == nil
ShouldRecordAlways(err, newErr) == newErr # Nil

\* (mutant) newErr is stored whatever it is
ShouldRecordUnconditionally(err, newErr) == TRUE

\* the condition  err == nil && newErr != nil
ShouldRecord(err, newErr) == err = Nil /\ newErr # Nil

\* goroutine idx evaluates the condition (an unsynchronized read of err); when it
\* is false the goroutine goes on to wg.Done() and ends
FavTestErr(idx) ==
    /\ sfG[idx] = "test"
    /\ IF ShouldRecord(sfErr, sfNewErr[idx])
          THEN /\ sfG' = [sfG EXCEPT ![idx] = "write"]
               /\ UNCHANGED sfWg
          ELSE /\ sfG' = [sfG EXCEPT ![idx] = "exited"]
               /\ sfWg' = sfWg - 1
    /\ UNCHANGED <<sfPc, allIDs, sfBatch, sfI, sfErr, sfNewErr, sfCalls, sfRet>>

\* goroutine idx executes  err = newErr  (an unsynchronized write of err), then
\* wg.Done(), and ends
FavWriteErr(idx) ==
    /\ sfG[idx] = "write"
    /\ sfErr' = sfNewErr[idx]
    /\ sfWg' = sfWg - 1
    /\ sfG' = [sfG EXCEPT ![idx] = "exited"]
    /\ UNCHANGED <<sfPc, allIDs, sfBatch, sfI, sfNewErr, sfCalls, sfRet>>

\* ------------------------------------------------------------------------
\* Properties of SetFavorite
\* ------------------------------------------------------------------------
Started == {"inflight", "test", "write", "exited"}
Completed == {"test", "write", "exited"}
BatchOf(idx) == idx \div batchSize
Used == {idx \in Idx : idx < Len(allIDs)}
Failing == {idx \in Idx : sfNewErr[idx] = ErrOf(idx)}
LowestFailingBatch == CHOOSE b \in {BatchOf(f) : f \in Failing} :
                          \A f \in Failing : b <= BatchOf(f)

\* C1: no position of allIDs ever gets a second backend call, and when
\* SetFavorite has returned the backend was called exactly once for each
\* position of albums ++ artists ++ tracks, with the ID at that position,
\* whichever calls failed.
C1_EveryPositionOnce ==
    /\ \A idx \in Idx : Len(sfCalls[idx]) <= 1
    /\ sfPc = "returned" =>
          \A idx \in Idx :
             sfCalls[idx] = IF idx < Len(allIDs) THEN <<IDAt(idx)>> ELSE <<>>

\* two batches, a duplicated ID, a failure in the first batch, all called
C1_Witness ==
    /\ sfPc = "returned"
    /\ Len(allIDs) > batchSize
    /\ allIDs[1] = allIDs[3]
    /\ sfNewErr[0] = ErrOf(0)
    /\ sfCalls[batchSize] = <<IDAt(batchSize)>>

\* C2: a call of a later batch has started only if every call of every
\* earlier batch has completed (with or without an error), and SetFavorite
\* returns after exactly ceil(N/5) batches.
C2_BatchesSequential ==
    /\ \A p \in Used, q \in Used :
          (BatchOf(p) < BatchOf(q) /\ sfG[q] \in Started) => sfG[p] \in Completed
    /\ sfPc = "returned" =>
          /\ sfBatch * batchSize >= Len(allIDs)
          /\ sfBatch > 0 => (sfBatch - 1) * batchSize < Len(allIDs)

\* a call of the second batch is in flight after a failure in the first
C2_Witness ==
    /\ Len(allIDs) > batchSize
    /\ sfG[batchSize] = "inflight"
    /\ sfNewErr[1] = ErrOf(1)
    /\ sfNewErr[0] = Nil

\* C3: at most 5 backend calls are in flight at any time.
C3_AtMostFiveInFlight ==
    Cardinality({idx \in Idx : sfG[idx] = "inflight"}) <= batchSize

\* five calls in flight while a sixth ID is still to be processed
C3_Witness ==
    /\ Len(allIDs) > batchSize
    /\ Cardinality({idx \in Idx : sfG[idx] = "inflight"}) = batchSize

\* C4: err never holds anything but the error of a failing call of the
\* lowest-indexed batch with a failure; SetFavorite returns only when every
\* goroutine has ended, and when some call failed it returns such an error.
C4_FirstBatchErrorReturned ==
    /\ sfErr # Nil =>
          \E f \in Failing : sfErr = ErrOf(f) /\ BatchOf(f) = LowestFailingBatch
    /\ sfPc = "returned" =>
          /\ \A idx \in Used : sfG[idx] = "exited"
          /\ Failing # {} =>
                \E f \in Failing : sfRet = ErrOf(f) /\ BatchOf(f) = LowestFailingBatch

\* failures in both batches; the error returned is from the first batch and is
\* not that of the lowest failing position
C4_Witness ==
    /\ sfPc = "returned"
    /\ {0, 1, batchSize} \subseteq Failing
    /\ sfRet = ErrOf(1)

\* the goroutines SetFavorite starts for the IDs it was given
UsedIdx == 0 .. (Len(allIDs) - 1)

\* C19: under every interleaving of the goroutines' reads and writes of err,
\* err is nil or the error of one of the calls; once a goroutine whose call
\* failed has ended, err is not nil; SetFavorite returns nil exactly when the
\* call of every ID succeeded; given no ID it makes no backend call and
\* returns nil.
C19_NilIffEveryCallSucceeded ==
    /\ sfErr # Nil => \E idx \in UsedIdx : sfNewErr[idx] = sfErr
    /\ \A idx \in UsedIdx : (sfG[idx] = "exited" /\ sfNewErr[idx] # Nil) => sfErr # Nil
    /\ sfPc = "returned" =>
          /\ (sfRet = Nil) <=> (\A idx \in UsedIdx : sfNewErr[idx] = Nil)
          /\ Len(allIDs) = 0 =>
                /\ sfRet = Nil
                /\ \A idx \in Idx : sfG[idx] = "none" /\ sfCalls[idx] = <<>>

\* the first two calls of the first batch failed, the third and the call of
\* the second batch succeeded; the error returned is that of the second call
C19_Witness ==
    /\ sfPc = "returned"
    /\ Len(allIDs) = batchSize + 1
    /\ sfNewErr[0] = ErrOf(0)
    /\ sfNewErr[1] = ErrOf(1)
    /\ sfNewErr[2] = Nil
    /\ sfNewErr[batchSize] = Nil
    /\ sfRet = ErrOf(1)

\* ------------------------------------------------------------------------
\* Record adapters (jellyfin)
\* ------------------------------------------------------------------------
TicksPerSecond == 10000000

\* the records the modelled backend holds
SampleAlbums ==
    << [ID |-> "al1", Name |-> "First", RunTimeTicks |-> 25000000,
        Artists |-> <<[ID |-> "ar1", Name |-> "Ann"], [ID |-> "ar2", Name |-> "Bob"]>>,
        Year |-> 1999, ChildCount |-> 2, Genres |-> <<"rock">>, IsFavorite |-> TRUE],
       [ID |-> "al2", Name |-> "Second", RunTimeTicks |-> 9999999,
        Artists |-> <<>>,
        Year |-> 2001, ChildCount |-> 1, Genres |-> <<>>, IsFavorite |-> TRUE] >>

SampleArtists ==
    << [ID |-> "ar1", Name |-> "Ann", AlbumCount |-> 2, IsFavorite |-> TRUE],
       [ID |-> "ar2", Name |-> "Bob", AlbumCount |-> 0, IsFavorite |-> TRUE] >>

SampleSongs ==
    << [Id |-> "tr1", Name |-> "One", AlbumID |-> "al1", Album |-> "First",
        RunTimeTicks |-> 31000000, IndexNumber |-> 1, DiscNumber |-> 1,
        Artists |-> <<[ID |-> "ar1", Name |-> "Ann"]>>, ProductionYear |-> 1999,
        ImageTagsPrimary |-> "", Rating |-> 4, IsFavorite |-> TRUE, PlayCount |-> 7,
        MediaSources |-> <<[Path |-> "/m/one.flac", Size |-> 4096, Bitrate |-> 320999]>>],
       [Id |-> "tr2", Name |-> "Two", AlbumID |-> "al2", Album |-> "Second",
        RunTimeTicks |-> 10000000, IndexNumber |-> 2, DiscNumber |-> 1,
        Artists |-> <<>>, ProductionYear |-> 2001,
        ImageTagsPrimary |-> "tag", Rating |-> 0, IsFavorite |-> TRUE, PlayCount |-> 0,
        MediaSources |-> <<>>] >>

SamplePlaylists ==
    << [ID |-> "pl1", Name |-> "Mix", Overview |-> "all sorts", SongCount |-> 3,
        RunTimeTicks |-> 25000000],
       [ID |-> "pl2", Name |-> "Empty", Overview |-> "", SongCount |-> 0,
        RunTimeTicks |-> 0] >>

\* a nil *jellyfin.Song, *jellyfin.Album, *jellyfin.Artist or *jellyfin.Playlist,
\* and a nil *mediaprovider.Track
NilPointer == [nilPointer |-> TRUE]

IsNilPointer(p) == DOMAIN p = {"nilPointer"}

\* what reading a field through a nil pointer ends in: a runtime panic
NilDereference == [panic |-> "nil pointer dereference"]

IsPanic(v) == DOMAIN v = {"panic"}

\* the elements of a list
Elems(ts) == {ts[i] : i \in 1 .. Len(ts)}

\* sharedutil.MapSlice(ts, f), f a function on the elements of ts
MapSlice(ts, f) == [i \in 1 .. Len(ts) |-> f[ts[i]]]

NameIDsID(a) == a.ID
NameIDsName(a) == a.Name

\* fillAlbum reads a.Artists first: with a nil a that is a nil pointer dereference
fillAlbum(a) ==
    IF IsNilPointer(a) THEN NilDereference
    ELSE
    [ID |-> a.ID,
     CoverArtID |-> a.ID,
     Name |-> a.Name,
     Duration |-> a.RunTimeTicks \div TicksPerSecond,
     ArtistIDs |-> MapSlice(a.Artists, [x \in Elems(a.Artists) |-> NameIDsID(x)]),
     ArtistNames |-> MapSlice(a.Artists, [x \in Elems(a.Artists) |-> NameIDsName(x)]),
     Year |-> a.Year,
     TrackCount |-> a.ChildCount,
     Genres |-> a.Genres,
     Favorite |-> a.IsFavorite]

toAlbum(a) == fillAlbum(a)

\* fillArtist reads a.AlbumCount first: with a nil a that is a nil pointer dereference
fillArtist(a) ==
    IF IsNilPointer(a) THEN NilDereference
    ELSE
    [AlbumCount |-> a.AlbumCount,
     Favorite |-> a.IsFavorite,
     ID |-> a.ID,
     Name |-> a.Name,
     CoverArtID |-> a.ID]

toArtist(a) == fillArtist(a)

\* j.client.LoggedInUser()
LoggedInUser == "user"

\* the divisor of fillPlaylist's duration
PlaylistTicksDivisor == 1000000

\* fillPlaylist reads p.Name first: with a nil p that is a nil pointer dereference
fillPlaylist(p) ==
    IF IsNilPointer(p) THEN NilDereference
    ELSE
    [Name |-> p.Name,
     ID |-> p.ID,
     CoverArtID |-> p.ID,
     Description |-> p.Overview,
     TrackCount |-> p.SongCount,
     Duration |-> p.RunTimeTicks \div PlaylistTicksDivisor,
     Owner |-> LoggedInUser,
     Public |-> FALSE]

toPlaylist(p) == fillPlaylist(p)

\* if ch == nil { return nil }
toTrack(ch) ==
    IF IsNilPointer(ch) THEN NilPointer
    ELSE
    LET hasSource == Len(ch.MediaSources) > 0
    IN  [ID |-> ch.Id,
         CoverArtID |-> IF ch.ImageTagsPrimary # "" THEN ch.Id ELSE ch.AlbumID,
         ParentID |-> ch.AlbumID,
         Name |-> ch.Name,
         Duration |-> ch.RunTimeTicks \div TicksPerSecond,
         TrackNumber |-> ch.IndexNumber,
         DiscNumber |-> ch.DiscNumber,
         ArtistIDs |-> MapSlice(ch.Artists, [x \in Elems(ch.Artists) |-> NameIDsID(x)]),
         ArtistNames |-> MapSlice(ch.Artists, [x \in Elems(ch.Artists) |-> NameIDsName(x)]),
         Album |-> ch.Album,
         AlbumID |-> ch.AlbumID,
         Year |-> ch.ProductionYear,
         Rating |-> ch.Rating,
         Favorite |-> ch.IsFavorite,
         PlayCount |-> ch.PlayCount,
         FilePath |-> IF hasSource THEN ch.MediaSources[1].Path ELSE "",
         Size |-> IF hasSource THEN ch.MediaSources[1].Size ELSE 0,
         BitRate |-> IF hasSource THEN ch.MediaSources[1].Bitrate \div 1000 ELSE 0]

\* ------------------------------------------------------------------------
\* GetFavorites
\* ------------------------------------------------------------------------
\* the three sub-queries, in the order their goroutines are started
Categories == <<"Albums", "Artists", "Tracks">>

CategorySet == {Categories[i] : i \in 1 .. Len(Categories)}

\* the records of a category the backend holds
BackendRecords(c) ==
    CASE c = "Albums" -> SampleAlbums
      [] c = "Artists" -> SampleArtists
      [] c = "Tracks" -> SampleSongs

Prefix(seq, n) == SubSeq(seq, 1, n)

\* client.GetAlbums / GetAlbumArtists / GetSongs with opts.Filter.Favorite: the
\* favorite records (any number of them) and no error, or an error together with
\* whatever list the client hands back with it
BackendAnswers(c) ==
    {[list |-> Prefix(BackendRecords(c), n), err |-> Nil] :
        n \in 0 .. Min(MaxFavorites, Len(BackendRecords(c)))}
    \cup {[list |-> Prefix(BackendRecords(c), n), err |-> <<"error", c>>] : n \in 0 .. 1}

\* the adapter each goroutine maps its records with
Mapped(c, list) ==
    CASE c = "Albums" -> MapSlice(list, [x \in Elems(list) |-> toAlbum(x)])
      [] c = "Artists" -> MapSlice(list, [x \in Elems(list) |-> toArtist(x)])
      [] c = "Tracks" -> MapSlice(list, [x \in Elems(list) |-> toTrack(x)])

GetFavoritesInit ==
    /\ gfPc = "idle"
    /\ gfI = 0
    /\ gfWg = 0
    /\ gfG = [c \in CategorySet |-> "none"]
    /\ gfGot = [c \in CategorySet |-> [list |-> <<>>, err |-> Unset]]
    /\ favorites = [c \in CategorySet |-> <<>>]
    /\ gfRet = [favorites |-> [c \in CategorySet |-> <<>>], err |-> Unset]

\* GetFavorites is entered: var wg; var favorites
GetFavoritesCall ==
    /\ gfPc = "idle"
    /\ gfPc' = "spawn"
    /\ gfI' = 0
    /\ gfWg' = 0
    /\ favorites' = [c \in CategorySet |-> <<>>]
    /\ UNCHANGED <<gfG, gfGot, gfRet>>

\* wg.Add(1); go func(){...}()  for the next category
GfSpawn ==
    /\ gfPc = "spawn"
    /\ gfWg' = gfWg + 1
    /\ gfG' = [gfG EXCEPT ![Categories[gfI + 1]] = "spawned"]
    /\ gfI' = gfI + 1
    /\ gfPc' = IF gfI + 1 < Len(Categories) THEN "spawn" ELSE "wait"
    /\ UNCHANGED <<gfGot, favorites, gfRet>>

\* the goroutine of category c issues its backend query
GfCallStart(c) ==
    /\ gfG[c] = "spawned"
    /\ gfG' = [gfG EXCEPT ![c] = "inflight"]
    /\ UNCHANGED <<gfPc, gfI, gfWg, gfGot, favorites, gfRet>>

\* the backend query of category c returns
GfCallReturn(c) ==
    /\ gfG[c] = "inflight"
    /\ \E r \in BackendAnswers(c) : gfGot' = [gfGot EXCEPT ![c] = r]
    /\ gfG' = [gfG EXCEPT ![c] = "store"]
    /\ UNCHANGED <<gfPc, gfI, gfWg, favorites, gfRet>>

\* (mutant) the condition without  err == nil
GfShouldStoreAnyList(got) == Len(got.list) > 0

\* the condition  err == nil && len(al) > 0
GfShouldStore(got) == got.err = Nil /\ Len(got.list) > 0

\* the goroutine of category c stores its mapped records, if any, in its field
\* of favorites, then wg.Done(), and ends
GfStore(c) ==
    /\ gfG[c] = "store"
    /\ favorites' = IF GfShouldStore(gfGot[c])
                       THEN [favorites EXCEPT ![c] = Mapped(c, gfGot[c].list)]
                       ELSE favorites
    /\ gfWg' = gfWg - 1
    /\ gfG' = [gfG EXCEPT ![c] = "exited"]
    /\ UNCHANGED <<gfPc, gfI, gfGot, gfRet>>

\* wg.Wait() returns; return favorites, nil
GetFavoritesReturn ==
    /\ gfPc = "wait"
    /\ WaitReturns(gfWg)
    /\ gfRet' = [favorites |-> favorites, err |-> Nil]
    /\ gfPc' = "returned"
    /\ UNCHANGED <<gfI, gfWg, gfG, gfGot, favorites>>

\* ------------------------------------------------------------------------
\* Properties of GetFavorites
\* ------------------------------------------------------------------------
\* the domain records a category's answer stands for
Expected(c) ==
    IF gfGot[c].err # Nil THEN <<>> ELSE
    IF c = "Albums" THEN [i \in 1 .. Len(gfGot[c].list) |-> toAlbum(gfGot[c].list[i])]
    ELSE IF c = "Artists" THEN [i \in 1 .. Len(gfGot[c].list) |-> toArtist(gfGot[c].list[i])]
    ELSE [i \in 1 .. Len(gfGot[c].list) |-> toTrack(gfGot[c].list[i])]

\* C7: GetFavorites returns a nil error whatever the three sub-queries
\* returned, after all three have ended; each field of the returned Favorites
\* is empty when its sub-query failed and holds the adapted records of its
\* answer, in order, when it succeeded.
C7_FavoritesNeverFail ==
    gfPc = "returned" =>
        /\ gfRet.err = Nil
        /\ \A c \in CategorySet :
              /\ gfG[c] = "exited"
              /\ gfRet.favorites[c] = Expected(c)

\* the artists query failed with a non-empty list in hand, the two others
\* succeeded with records
C7_Witness ==
    /\ gfPc = "returned"
    /\ gfGot["Artists"].err # Nil
    /\ Len(gfGot["Artists"].list) > 0
    /\ gfRet.favorites["Artists"] = <<>>
    /\ Len(gfRet.favorites["Albums"]) = 2
    /\ Len(gfRet.favorites["Tracks"]) = 1
    /\ gfRet.favorites["Tracks"][1].CoverArtID = "al1"

\* ------------------------------------------------------------------------
\* GetGenres
\* ------------------------------------------------------------------------
cacheValidDurationSeconds == 60

\* the goroutines that may call GetGenres on the provider
Callers == 1 .. 2

\* a Go slice: nil, or a (possibly empty) list
NilSlice == [isNil |-> TRUE, items |-> <<>>]
Slice(items) == [isNil |-> FALSE, items |-> items]

\* the genres the modelled backend holds, as jellyfin.NameID
SampleGenres == << [Name |-> "jazz", ID |-> "g1"], [Name |-> "rock", ID |-> "g2"] >>

\* client.GetGenres(jellyfin.Paging{}): some genres and no error, or an error
GenreAnswers ==
    {[list |-> Prefix(SampleGenres, n), err |-> Nil] :
        n \in 0 .. Min(MaxGenres, Len(SampleGenres))}
    \cup {[list |-> <<>>, err |-> <<"error", "genres">>]}

\* the function GetGenres maps the backend's genres with
toGenre(g) == [Name |-> g.Name, AlbumCount |-> -1, TrackCount |-> -1]

NotReturned == [list |-> NilSlice, err |-> Unset]

NoFetch == [done |-> FALSE, at |-> 0, list |-> NilSlice]

NoEntry == [fetched |-> FALSE, within |-> FALSE, list |-> NilSlice,
            cached |-> NilSlice, cachedAt |-> 0, afterFailure |-> FALSE]

\* newJellyfinMediaProvider: genresCached is an empty, non-nil slice and
\* genresCachedAt the zero value; the clock reads anything
GetGenresInit ==
    /\ now \in 0 .. MaxClock
    /\ genresCached = Slice(<<>>)
    /\ genresCachedAt = 0
    /\ ggPc = [c \in Callers |-> "idle"]
    /\ ggG = [c \in Callers |-> <<>>]
    /\ ggRet = [c \in Callers |-> NotReturned]
    /\ ggIssued = [c \in Callers |-> 0]
    /\ ggEntry = [c \in Callers |-> NoEntry]
    /\ lastFetch = NoFetch
    /\ ggFirst = "none"
    /\ ggPrevFailed = FALSE

\* a second passes
Tick ==
    /\ now < MaxClock
    /\ now' = now + 1
    /\ UNCHANGED <<genresCached, genresCachedAt, ggPc, ggG, ggRet, ggIssued, ggEntry,
                   lastFetch, ggFirst, ggPrevFailed>>

\* (mutant) the window test with <= for <
CacheValidInclusive(cached, cachedAt, t) ==
    ~cached.isNil /\ t - cachedAt <= cacheValidDurationSeconds

\* j.genresCached != nil && time.Now().Unix()-j.genresCachedAt < cacheValidDurationSeconds
CacheValid(cached, cachedAt, t) ==
    ~cached.isNil /\ t - cachedAt < cacheValidDurationSeconds

\* what is recorded of the state in which caller c enters GetGenres
EntryRecord ==
    [fetched |-> lastFetch.done,
     within |-> lastFetch.done /\ now - lastFetch.at < cacheValidDurationSeconds,
     list |-> lastFetch.list,
     cached |-> genresCached,
     cachedAt |-> genresCachedAt,
     afterFailure |-> ggPrevFailed]

\* caller c enters GetGenres: the cache is served, or the backend call is issued
GenresCall(c) ==
    /\ ggPc[c] = "idle"
    /\ ggEntry' = [ggEntry EXCEPT ![c] = EntryRecord]
    /\ IF CacheValid(genresCached, genresCachedAt, now)
          THEN /\ ggRet' = [ggRet EXCEPT ![c] = [list |-> genresCached, err |-> Nil]]
               /\ ggIssued' = [ggIssued EXCEPT ![c] = 0]
               /\ ggFirst' = IF ggFirst = "none" THEN "served" ELSE ggFirst
               /\ ggPrevFailed' = FALSE
               /\ UNCHANGED ggPc
          ELSE /\ ggRet' = [ggRet EXCEPT ![c] = NotReturned]
               /\ ggIssued' = [ggIssued EXCEPT ![c] = 1]
               /\ ggFirst' = IF ggFirst = "none" THEN "fetched" ELSE ggFirst
               /\ ggPc' = [ggPc EXCEPT ![c] = "fetching"]
               /\ UNCHANGED ggPrevFailed
    /\ UNCHANGED <<now, genresCached, genresCachedAt, ggG, lastFetch>>

\* (mutant) a failed fetch hands the stale list back with the error
FetchFailedStale(err) == [list |-> genresCached, err |-> err]

\* return nil, err
FetchFailed(err) == [list |-> NilSlice, err |-> err]

\* the backend call of caller c returns an error: GetGenres returns it
GenresFetchFail(c) ==
    /\ ggPc[c] = "fetching"
    /\ \E a \in GenreAnswers :
          /\ a.err # Nil
          /\ ggRet' = [ggRet EXCEPT ![c] = FetchFailed(a.err)]
    /\ ggPc' = [ggPc EXCEPT ![c] = "idle"]
    /\ ggPrevFailed' = TRUE
    /\ UNCHANGED <<now, genresCached, genresCachedAt, ggG, ggIssued, ggEntry,
                   lastFetch, ggFirst>>

\* the backend call of caller c returns genres: j.genresCached = MapSlice(g, ...)
GenresFetchOK(c) ==
    /\ ggPc[c] = "fetching"
    /\ \E a \in GenreAnswers :
          /\ a.err = Nil
          /\ ggG' = [ggG EXCEPT ![c] = a.list]
          /\ genresCached' = Slice(MapSlice(a.list, [x \in Elems(a.list) |-> toGenre(x)]))
    /\ ggPc' = [ggPc EXCEPT ![c] = "stamp"]
    /\ UNCHANGED <<now, genresCachedAt, ggRet, ggIssued, ggEntry, lastFetch, ggFirst,
                   ggPrevFailed>>

\* j.genresCachedAt = time.Now().Unix(); return j.genresCached, nil
GenresStamp(c) ==
    /\ ggPc[c] = "stamp"
    /\ genresCachedAt' = now
    /\ ggRet' = [ggRet EXCEPT ![c] = [list |-> genresCached, err |-> Nil]]
    /\ lastFetch' = [done |-> TRUE, at |-> now,
                     list |-> Slice(MapSlice(ggG[c], [x \in Elems(ggG[c]) |-> toGenre(x)]))]
    /\ ggPc' = [ggPc EXCEPT ![c] = "idle"]
    /\ ggPrevFailed' = FALSE
    /\ UNCHANGED <<now, genresCached, ggG, ggIssued, ggEntry, ggFirst>>

\* one caller, one call after the other
\* ------------------------------------------------------------------------
\* Properties of GetGenres
\* ------------------------------------------------------------------------
ReturnedOK(c) == ggPc[c] = "idle" /\ ggRet[c].err = Nil
ReturnedError(c) == ggPc[c] = "idle" /\ ggRet[c].err \notin {Nil, Unset}

\* C8: a call entered less than 60 seconds after the last successful fetch
\* completed issues no backend call and returns the list that fetch stored;
\* a call entered when 60 seconds or more have passed since then issues
\* exactly one backend call and, when it returns a list, the cached list is
\* the fresh list, the timestamp is the completion time of this fetch, and
\* the fresh list is what it returns.
C8_CacheWindow ==
    LET e == ggEntry[1] IN
    /\ e.within =>
          /\ ggIssued[1] = 0
          /\ ReturnedOK(1)
          /\ ggRet[1].list = e.list
    /\ (e.fetched /\ ~e.within) =>
          /\ ggIssued[1] = 1
          /\ ReturnedOK(1) =>
                /\ genresCached = Slice([i \in 1 .. Len(ggG[1]) |-> toGenre(ggG[1][i])])
                /\ ggRet[1].list = genresCached
                /\ genresCachedAt = lastFetch.at
                /\ genresCachedAt >= e.cachedAt + cacheValidDurationSeconds

\* a call entered exactly 60 seconds after the last fetch has fetched a
\* different list and replaced the cache
C8_Witness ==
    /\ ggEntry[1].fetched
    /\ ~ggEntry[1].within
    /\ ReturnedOK(1)
    /\ ggRet[1].list # ggEntry[1].list
    /\ Len(ggRet[1].list.items) = 2
    /\ genresCachedAt = ggEntry[1].cachedAt + cacheValidDurationSeconds

\* C9 (as claimed): the first call on a new provider is never answered from
\* the cache the constructor set up.
C9_FirstCallFetches == ggFirst # "served"

\* C10: a call whose fetch failed returns the error and a nil list, was
\* entered with an expired cache and leaves genresCached and genresCachedAt
\* as they were when it was entered; the call that follows it issues a
\* backend fetch.
C10_FailedFetchKeepsCache ==
    LET e == ggEntry[1] IN
    /\ ReturnedError(1) =>
          /\ ggRet[1].list = NilSlice
          /\ ggIssued[1] = 1
          /\ genresCached = e.cached
          /\ genresCachedAt = e.cachedAt
          /\ ~e.within
    /\ e.afterFailure => ggIssued[1] = 1

\* two failed fetches in a row over a stale, non-empty cache
C10_Witness ==
    /\ ggEntry[1].afterFailure
    /\ ggEntry[1].fetched
    /\ Len(genresCached.items) > 0
    /\ ReturnedError(1)
    /\ now > genresCachedAt + cacheValidDurationSeconds

\* ------------------------------------------------------------------------
\* Properties of concurrent GetGenres calls
\* ------------------------------------------------------------------------
\* a caller is between line 261 (list written) and line 268 (timestamp written)
InUpdate(c) == ggPc[c] = "stamp"

\* the call caller c made last was answered from the cache
ServedFromCache(c) == ggPc[c] = "idle" /\ ggRet[c].err = Nil /\ ggIssued[c] = 0

\* C11 (as claimed): the list and the timestamp of the cache always come from
\* one and the same fetch: when no caller is between the two writes the
\* cached list is the list of the fetch that set the timestamp, and a call
\* answered from the cache returns the list of the fetch whose timestamp
\* it tested.
C11_CachePairFromOneFetch ==
    /\ (lastFetch.done /\ \A c \in Callers : ~InUpdate(c)) =>
          /\ genresCached = lastFetch.list
          /\ genresCachedAt = lastFetch.at
    /\ \A c \in Callers :
          (ServedFromCache(c) /\ ggEntry[c].fetched) => ggRet[c].list = ggEntry[c].list

\* ------------------------------------------------------------------------
\* SearchAll (subsonic)
\* ------------------------------------------------------------------------
\* Strings are sequences of one-character strings.
Lower(ch) ==
    CASE ch = "A" -> "a"
      [] ch = "B" -> "b"
      [] OTHER -> ch

\* strings.ToLower
ToLower(str) == [i \in 1 .. Len(str) |-> Lower(str[i])]

\* strings.Fields: the maximal runs of non-space characters
RECURSIVE FieldsFrom(_, _, _)
FieldsFrom(str, i, word) ==
    IF i > Len(str)
      THEN IF word = <<>> THEN <<>> ELSE <<word>>
      ELSE IF str[i] = " "
             THEN (IF word = <<>> THEN <<>> ELSE <<word>>) \o FieldsFrom(str, i + 1, <<>>)
             ELSE FieldsFrom(str, i + 1, Append(word, str[i]))

Fields(str) == FieldsFrom(str, 1, <<>>)

\* strings.Contains
Contains(str, sub) ==
    \E i \in 1 .. (Len(str) - Len(sub) + 1) : SubSeq(str, i, i + Len(sub) - 1) = sub

\* (mutant) one matching term is enough
anyTermMatches(name, terms) == \E k \in 1 .. Len(terms) : Contains(name, terms[k])

\* name and terms should be pre-converted to the same case
allTermsMatch(name, terms) == \A k \in 1 .. Len(terms) : Contains(name, terms[k])

\* sharedutil.FilterSlice(ts, f), f a function on the elements of ts
RECURSIVE FilterSlice(_, _)
FilterSlice(ts, f) ==
    IF ts = <<>> THEN <<>>
    ELSE (IF f[Head(ts)] THEN <<Head(ts)>> ELSE <<>>) \o FilterSlice(Tail(ts), f)

\* strings.Join(names, ", ")
RECURSIVE Join(_)
Join(names) ==
    IF Len(names) = 0 THEN <<>>
    ELSE IF Len(names) = 1 THEN names[1]
    ELSE names[1] \o <<",", " ">> \o Join(Tail(names))

\* select Subsonic single-valued name or join OpenSubsonic multi-valued names
getNameString(singleName, idNames) ==
    IF Len(idNames) = 0
      THEN singleName
      ELSE Join(MapSlice(idNames, [x \in Elems(idNames) |-> NameIDsName(x)]))

\* the queries a caller passes
Queries == { <<"a", " ", "B">>, <<"b">>, <<>>, <<" ", "c">> }

\* what the modelled server holds
ServerAlbums ==
    << [ID |-> "al1", CoverArt |-> "cv1", Name |-> <<"A", "b">>, Artist |-> <<"X">>,
        Artists |-> <<[ID |-> "ar1", Name |-> <<"X">>], [ID |-> "ar2", Name |-> <<"Y">>]>>,
        SongCount |-> 9] >>

ServerArtists ==
    << [ID |-> "ar1", CoverArt |-> "cv2", Name |-> <<"X">>, AlbumCount |-> 3] >>

ServerSongs ==
    << [ID |-> "tr1", CoverArt |-> "cv3", Title |-> <<"b", "a">>, Artist |-> <<"Y">>,
        Artists |-> <<>>, Duration |-> 180] >>

ServerPlaylists ==
    << [ID |-> "pl1", CoverArt |-> "cv4", Name |-> <<"B", " ", "a">>, SongCount |-> 5],
       [ID |-> "pl2", CoverArt |-> "cv5", Name |-> <<"c", "c">>, SongCount |-> 0] >>

ServerGenres ==
    << [Name |-> <<"A", "b">>, AlbumCount |-> 2],
       [Name |-> <<"a">>, AlbumCount |-> 1] >>

\* the three sub-queries, in the order their goroutines are started
SubQueries == <<"search3", "playlists", "genres">>

SubQuerySet == {SubQueries[i] : i \in 1 .. Len(SubQueries)}

NilResult == [isNil |-> TRUE, Album |-> <<>>, Artist |-> <<>>, Song |-> <<>>]

\* (mutant) maxResults itself is asked for of each kind
RequestedCountUndivided(max) == max

\* the count SearchAll asks for:  maxResults / 3, Go's division that truncates
\* toward zero
RequestedCount(max) == IF max >= 0 THEN max \div 3 ELSE -((-max) \div 3)

\* a server asked for a negative number of hits returns none
AtLeastZero(n) == IF n < 0 THEN 0 ELSE n

\* client.Search3(searchQuery, {artistCount, albumCount, songCount}): at most
\* count hits of each kind and no error, or no result and an error
Search3Answers(count) ==
    {[res |-> [isNil |-> FALSE,
               Album |-> Prefix(ServerAlbums, na),
               Artist |-> Prefix(ServerArtists, nr),
               Song |-> Prefix(ServerSongs, ns)],
      list |-> <<>>, err |-> Nil] :
        na \in 0 .. Min(AtLeastZero(count), Len(ServerAlbums)),
        nr \in 0 .. Min(AtLeastZero(count), Len(ServerArtists)),
        ns \in 0 .. Min(AtLeastZero(count), Len(ServerSongs))}
    \cup {[res |-> NilResult, list |-> <<>>, err |-> <<"error", "search3">>]}

\* client.GetPlaylists(nil) / client.GetGenres(): the whole list and no error, or
\* an error together with whatever list the client hands back with it
ListAnswers(q, all, max) ==
    {[res |-> NilResult, list |-> Prefix(all, n), err |-> Nil] :
        n \in 0 .. Min(max, Len(all))}
    \cup {[res |-> NilResult, list |-> Prefix(all, n), err |-> <<"error", q>>] :
        n \in 0 .. 1}

SubQueryAnswers(q) ==
    CASE q = "search3" -> Search3Answers(saCount)
      [] q = "playlists" -> ListAnswers(q, ServerPlaylists, MaxPlaylists)
      [] q = "genres" -> ListAnswers(q, ServerGenres, MaxGenres)

NoAnswer == [res |-> NilResult, list |-> <<>>, err |-> Unset]

NoResults == [results |-> NilSlice, err |-> Unset]

SearchAllInit ==
    /\ saPc = "idle"
    /\ searchQuery = <<>>
    /\ maxResults = 0
    /\ saCount = 0
    /\ saI = 0
    /\ saWg = 0
    /\ saG = [q \in SubQuerySet |-> "none"]
    /\ saGot = [q \in SubQuerySet |-> NoAnswer]
    /\ saErr = Nil
    /\ saResult = NilResult
    /\ saPlaylists = <<>>
    /\ saGenres = <<>>
    /\ saRet = NoResults

\* SearchAll is entered with a maxResults of the set given
SearchAllEnter(maxValues) ==
    /\ saPc = "idle"
    /\ searchQuery' \in Queries
    /\ maxResults' \in maxValues
    /\ saCount' = 0
    /\ saPc' = "spawn"
    /\ saI' = 0
    /\ saWg' = 0
    /\ saErr' = Nil
    /\ saResult' = NilResult
    /\ saPlaylists' = <<>>
    /\ saGenres' = <<>>
    /\ UNCHANGED <<saG, saGot, saRet>>

\* SearchAll is entered with a number of results to return
SearchAllCall == SearchAllEnter(0 .. MaxMaxResults)

\* SearchAll is entered with a negative maxResults
SearchAllCallNegative == SearchAllEnter((0 - MaxNegative) .. -1)

\* wg.Add(1); go func(){...}()  for the next sub-query
SaSpawn ==
    /\ saPc = "spawn"
    /\ saWg' = saWg + 1
    /\ saG' = [saG EXCEPT ![SubQueries[saI + 1]] = "spawned"]
    /\ saI' = saI + 1
    /\ saPc' = IF saI + 1 < Len(SubQueries) THEN "spawn" ELSE "wait"
    /\ UNCHANGED <<searchQuery, maxResults, saCount, saGot, saErr, saResult, saPlaylists,
                   saGenres, saRet>>

\* the goroutine of sub-query q issues its backend call, the one of Search3
\* with  count := strconv.Itoa(maxResults / 3)
SaCallStart(q) ==
    /\ saG[q] = "spawned"
    /\ saG' = [saG EXCEPT ![q] = "inflight"]
    /\ saCount' = IF q = "search3" THEN RequestedCount(maxResults) ELSE saCount
    /\ UNCHANGED <<saPc, searchQuery, maxResults, saI, saWg, saGot, saErr, saResult,
                   saPlaylists, saGenres, saRet>>

\* the backend call of sub-query q returns
SaCallReturn(q) ==
    /\ saG[q] = "inflight"
    /\ \E a \in SubQueryAnswers(q) : saGot' = [saGot EXCEPT ![q] = a]
    /\ saG' = [saG EXCEPT ![q] = "store"]
    /\ UNCHANGED <<saPc, searchQuery, maxResults, saCount, saI, saWg, saErr, saResult,
                   saPlaylists, saGenres, saRet>>

queryLowerWords == Fields(ToLower(searchQuery))

NameMatches(x) == allTermsMatch(ToLower(x.Name), queryLowerWords)

\* (mutant) the filtered list is kept whatever e is
KeepSecondaryAlways(e) == TRUE

\* the condition  e == nil  of the playlist and genre goroutines
KeepSecondary(e) == e = Nil

\* the goroutine of sub-query q stores its answer in its captured variable(s),
\* then wg.Done(), and ends
SaStore(q) ==
    /\ saG[q] = "store"
    /\ LET a == saGot[q] IN
       CASE q = "search3" ->
                /\ saErr' = IF a.err # Nil THEN a.err ELSE saErr
                /\ saResult' = IF a.err # Nil THEN saResult ELSE a.res
                /\ UNCHANGED <<saPlaylists, saGenres>>
         [] q = "playlists" ->
                /\ saPlaylists' = IF KeepSecondary(a.err)
                                     THEN FilterSlice(a.list,
                                             [x \in Elems(a.list) |-> NameMatches(x)])
                                     ELSE saPlaylists
                /\ UNCHANGED <<saErr, saResult, saGenres>>
         [] q = "genres" ->
                /\ saGenres' = IF KeepSecondary(a.err)
                                  THEN FilterSlice(a.list,
                                          [x \in Elems(a.list) |-> NameMatches(x)])
                                  ELSE saGenres
                /\ UNCHANGED <<saErr, saResult, saPlaylists>>
    /\ saWg' = saWg - 1
    /\ saG' = [saG EXCEPT ![q] = "exited"]
    /\ UNCHANGED <<saPc, searchQuery, maxResults, saCount, saI, saGot, saRet>>

ContentTypeAlbum == 0
ContentTypeArtist == 1
ContentTypeTrack == 2
ContentTypePlaylist == 3
ContentTypeGenre == 4

albumResult(al) ==
    [Type |-> ContentTypeAlbum, ID |-> al.ID, CoverID |-> al.CoverArt, Name |-> al.Name,
     ArtistName |-> getNameString(al.Artist, al.Artists), Size |-> al.SongCount]

artistResult(ar) ==
    [Type |-> ContentTypeArtist, ID |-> ar.ID, CoverID |-> ar.CoverArt, Name |-> ar.Name,
     ArtistName |-> <<>>, Size |-> ar.AlbumCount]

trackResult(tr) ==
    [Type |-> ContentTypeTrack, ID |-> tr.ID, CoverID |-> tr.CoverArt, Name |-> tr.Title,
     ArtistName |-> getNameString(tr.Artist, tr.Artists), Size |-> tr.Duration]

playlistResult(pl) ==
    [Type |-> ContentTypePlaylist, ID |-> pl.ID, CoverID |-> pl.CoverArt, Name |-> pl.Name,
     ArtistName |-> <<>>, Size |-> pl.SongCount]

\* a genre's ID is its name, its CoverID is unset
genreResult(g) ==
    [Type |-> ContentTypeGenre, ID |-> g.Name, CoverID |-> "", Name |-> g.Name,
     ArtistName |-> <<>>, Size |-> g.AlbumCount]

\* (mutant) the genres are appended before the playlists
mergeResultsGenresFirst(searchResult, matchingPlaylists, matchingGenres) ==
    MapSlice(searchResult.Album, [x \in Elems(searchResult.Album) |-> albumResult(x)])
    \o MapSlice(searchResult.Artist, [x \in Elems(searchResult.Artist) |-> artistResult(x)])
    \o MapSlice(searchResult.Song, [x \in Elems(searchResult.Song) |-> trackResult(x)])
    \o MapSlice(matchingGenres, [x \in Elems(matchingGenres) |-> genreResult(x)])
    \o MapSlice(matchingPlaylists, [x \in Elems(matchingPlaylists) |-> playlistResult(x)])

mergeResults(searchResult, matchingPlaylists, matchingGenres) ==
    MapSlice(searchResult.Album, [x \in Elems(searchResult.Album) |-> albumResult(x)])
    \o MapSlice(searchResult.Artist, [x \in Elems(searchResult.Artist) |-> artistResult(x)])
    \o MapSlice(searchResult.Song, [x \in Elems(searchResult.Song) |-> trackResult(x)])
    \o MapSlice(matchingPlaylists, [x \in Elems(matchingPlaylists) |-> playlistResult(x)])
    \o MapSlice(matchingGenres, [x \in Elems(matchingGenres) |-> genreResult(x)])

\* (mutant) the last maxResults entries are kept
TruncateTail(results, max) ==
    IF Len(results) > max
      THEN SubSeq(results, Len(results) - max + 1, Len(results))
      ELSE results

\* if len(results) > maxResults { results = results[:maxResults] }
Truncate(results, max) == IF Len(results) > max THEN SubSeq(results, 1, max) ELSE results

\* results[:maxResults] with a negative maxResults: slice bounds out of range
SliceOutOfRange(results, max) == Len(results) > max /\ max < 0

\* (mutant) the error is dropped when a secondary sub-query found something
HasFailedUnlessSecondary(err) == err # Nil /\ saPlaylists = <<>> /\ saGenres = <<>>

\* the condition  err != nil  after wg.Wait()
HasFailed(err) == err # Nil

\* wg.Wait() returns; return nil, err  or the merged, truncated results.
\* mergeResults dereferences result: a nil result is a nil pointer dereference;
\* the truncation panics when maxResults is negative.
SearchAllReturn ==
    /\ saPc = "wait"
    /\ WaitReturns(saWg)
    /\ saRet' = IF HasFailed(saErr)
                  THEN [results |-> NilSlice, err |-> saErr]
                  ELSE IF saResult.isNil
                         THEN [results |-> NilSlice, err |-> <<"panic", "nil dereference">>]
                         ELSE LET results == mergeResults(saResult, saPlaylists, saGenres) IN
                              IF SliceOutOfRange(results, maxResults)
                                THEN [results |-> NilSlice,
                                      err |-> <<"panic", "slice bounds out of range">>]
                                ELSE [results |-> Slice(Truncate(results, maxResults)),
                                      err |-> Nil]
    /\ saPc' = "returned"
    /\ UNCHANGED <<searchQuery, maxResults, saCount, saI, saWg, saG, saGot, saErr, saResult,
                   saPlaylists, saGenres>>

\* ------------------------------------------------------------------------
\* Properties of SearchAll
\* ------------------------------------------------------------------------
Failed(q) == saGot[q].err # Nil

\* the entries the primary answer stands for: albums, artists, tracks
PrimaryEntries ==
    LET r == saGot["search3"].res IN
    [i \in 1 .. Len(r.Album) |-> albumResult(r.Album[i])]
    \o [i \in 1 .. Len(r.Artist) |-> artistResult(r.Artist[i])]
    \o [i \in 1 .. Len(r.Song) |-> trackResult(r.Song[i])]

TypesIn(results) == {results[i].Type : i \in 1 .. Len(results)}

\* C5: when the Search3 sub-query failed, SearchAll returns its error and a
\* nil result list, after all three goroutines have ended, whatever the
\* playlist and genre sub-queries returned and in whatever order.
C5_PrimaryFailureIsFatal ==
    (saPc = "returned" /\ Failed("search3")) =>
        /\ \A q \in SubQuerySet : saG[q] = "exited"
        /\ saRet = [results |-> NilSlice, err |-> saGot["search3"].err]

\* Search3 failed while both secondary sub-queries succeeded with matches
C5_Witness ==
    /\ saPc = "returned"
    /\ Failed("search3")
    /\ ~Failed("playlists") /\ saPlaylists # <<>>
    /\ ~Failed("genres") /\ saGenres # <<>>
    /\ saRet.err = saGot["search3"].err

\* C6: when Search3 succeeded and the playlist and/or genre sub-query failed,
\* SearchAll returns a nil error and a list that starts with the primary
\* album, artist and track entries and has no entry of a failed category.
C6_SecondaryFailureAbsorbed ==
    (saPc = "returned" /\ ~Failed("search3")
        /\ (Failed("playlists") \/ Failed("genres"))) =>
        LET res == saRet.results.items IN
        /\ saRet.err = Nil
        /\ Len(res) >= Len(PrimaryEntries)
        /\ SubSeq(res, 1, Len(PrimaryEntries)) = PrimaryEntries
        /\ Failed("playlists") => ContentTypePlaylist \notin TypesIn(res)
        /\ Failed("genres") => ContentTypeGenre \notin TypesIn(res)

\* Search3 returned three entries, the playlist query failed with a matching
\* playlist in hand, the genre query succeeded and a genre is in the result
C6_Witness ==
    /\ saPc = "returned"
    /\ Len(PrimaryEntries) = 3
    /\ Failed("playlists")
    /\ Len(saGot["playlists"].list) > 0
    /\ NameMatches(saGot["playlists"].list[1])
    /\ ~Failed("genres")
    /\ saRet.err = Nil
    /\ TypesIn(saRet.results.items) =
          {ContentTypeAlbum, ContentTypeArtist, ContentTypeTrack, ContentTypeGenre}

\* SearchAll has returned a result list and no error
Succeeded == saPc = "returned" /\ saRet.err = Nil

\* the candidates of secondary sub-query q whose name holds every term of the
\* query, in the order of the backend's list; none when the sub-query failed
Matching(q) ==
    IF Failed(q) THEN <<>>
    ELSE SelectSeq(saGot[q].list, LAMBDA x : NameMatches(x))

\* type and ID of every entry the backend answers stand for: albums, artists,
\* tracks, matching playlists, matching genres
MergeKeys ==
    LET r == saGot["search3"].res
        pl == Matching("playlists")
        gn == Matching("genres")
    IN  [i \in 1 .. Len(r.Album) |-> <<ContentTypeAlbum, r.Album[i].ID>>]
        \o [i \in 1 .. Len(r.Artist) |-> <<ContentTypeArtist, r.Artist[i].ID>>]
        \o [i \in 1 .. Len(r.Song) |-> <<ContentTypeTrack, r.Song[i].ID>>]
        \o [i \in 1 .. Len(pl) |-> <<ContentTypePlaylist, pl[i].ID>>]
        \o [i \in 1 .. Len(gn) |-> <<ContentTypeGenre, gn[i].Name>>]

KeysOf(results) == [i \in 1 .. Len(results) |-> <<results[i].Type, results[i].ID>>]

\* C12: the list a successful SearchAll returns is a prefix of albums, then
\* artists, then tracks (each in response order), then matching playlists,
\* then matching genres (each in list order), the whole of it when it has no
\* more than maxResults entries; every entry has the type of its group and no
\* entry of a later group precedes one of an earlier group.
C12_MergeOrderFixed ==
    Succeeded =>
        LET res == saRet.results.items IN
        /\ Len(res) <= Len(MergeKeys)
        /\ KeysOf(res) = SubSeq(MergeKeys, 1, Len(res))
        /\ Len(MergeKeys) <= maxResults => Len(res) = Len(MergeKeys)
        /\ \A i, j \in 1 .. Len(res) : i < j => res[i].Type <= res[j].Type

\* an album, a track, a matching playlist and a matching genre, untruncated
C12_Witness ==
    /\ Succeeded
    /\ Len(MergeKeys) = 4
    /\ [i \in 1 .. Len(saRet.results.items) |-> saRet.results.items[i].Type] =
          <<ContentTypeAlbum, ContentTypeTrack, ContentTypePlaylist, ContentTypeGenre>>

\* C13: a successful SearchAll returns at most maxResults entries: the first
\* maxResults entries of the merged list, in the merged order, when the merged
\* list is longer than maxResults, and the merged list itself otherwise.
C13_TruncatedToMaxResults ==
    Succeeded =>
        LET res == saRet.results.items
            merged == mergeResults(saResult, saPlaylists, saGenres)
        IN  /\ Len(res) <= maxResults
            /\ Len(merged) = Len(MergeKeys)
            /\ IF Len(merged) > maxResults
                 THEN /\ Len(res) = maxResults
                      /\ \A i \in 1 .. maxResults : res[i] = merged[i]
                 ELSE res = merged

\* five entries were merged and the first three of them returned
C13_Witness ==
    /\ Succeeded
    /\ maxResults = 3
    /\ Len(MergeKeys) = 5
    /\ KeysOf(saRet.results.items) = SubSeq(MergeKeys, 1, 3)

\* the terms of the query: the pairs <<a, b>> such that query[a .. b] is a
\* maximal run of characters that are not spaces
TermBounds(query) ==
    {ab \in (1 .. Len(query)) \X (1 .. Len(query)) :
        /\ ab[1] <= ab[2]
        /\ \A k \in ab[1] .. ab[2] : query[k] # " "
        /\ (ab[1] = 1 \/ query[ab[1] - 1] = " ")
        /\ (ab[2] = Len(query) \/ query[ab[2] + 1] = " ")}

\* query[a .. b] occurs in name when case is ignored
OccursIgnoringCase(query, a, b, name) ==
    \E i \in 1 .. Len(name) :
        /\ i + (b - a) <= Len(name)
        /\ \A k \in 0 .. (b - a) : Lower(name[i + k]) = Lower(query[a + k])

\* every term of the query occurs in name
EveryTermIn(name) ==
    \A ab \in TermBounds(searchQuery) : OccursIgnoringCase(searchQuery, ab[1], ab[2], name)

\* what the goroutine of a secondary sub-query kept
KeptBy(q) == IF q = "playlists" THEN saPlaylists ELSE saGenres

SecondaryKey(q, x) ==
    IF q = "playlists" THEN <<ContentTypePlaylist, x.ID>> ELSE <<ContentTypeGenre, x.Name>>

\* C14: of the playlists (genres) a successful sub-query returned, exactly
\* those are kept as matches whose name holds every whitespace-separated term
\* of the query as a substring, case ignored, in any order and anywhere in the
\* name; when nothing is cut from the merged list, exactly those are in the
\* result.
C14_EveryTermMustMatch ==
    \A q \in {"playlists", "genres"} :
        (saG[q] = "exited" /\ ~Failed(q)) =>
            LET list == saGot[q].list
                kept == KeptBy(q)
            IN  /\ \A i \in 1 .. Len(list) :
                      (\E j \in 1 .. Len(kept) : kept[j] = list[i])
                          <=> EveryTermIn(list[i].Name)
                /\ (Succeeded /\ Len(saRet.results.items) < maxResults) =>
                      \A i \in 1 .. Len(list) :
                          (\E j \in 1 .. Len(saRet.results.items) :
                               KeysOf(saRet.results.items)[j] = SecondaryKey(q, list[i]))
                              <=> EveryTermIn(list[i].Name)

\* the query "a B": the playlist "B a" and the genre "Ab" are in the result,
\* the playlist "cc" and the genre "a" are not
C14_Witness ==
    /\ Succeeded
    /\ searchQuery = <<"a", " ", "B">>
    /\ Len(saGot["playlists"].list) = 2 /\ ~Failed("playlists")
    /\ Len(saGot["genres"].list) = 2 /\ ~Failed("genres")
    /\ saPlaylists = <<ServerPlaylists[1]>>
    /\ saGenres = <<ServerGenres[1]>>
    /\ Len(saRet.results.items) = 3
    /\ {ContentTypePlaylist, ContentTypeGenre} \subseteq TypesIn(saRet.results.items)

\* ------------------------------------------------------------------------
\* ReplacePlaylistTracks (jellyfin)
\* ------------------------------------------------------------------------
\* the track IDs of the modelled server
TrackIDs == {"t1", "t2"}

\* the lists of at most MaxPlaylistTracks track IDs
TrackLists == UNION {[1 .. n -> TrackIDs] : n \in 0 .. MaxPlaylistTracks}

\* the *jellyfin.Song the server lists for a track of the playlist
SongOf(id) == [Id |-> id]

\* client.GetPlaylistSongs(playlistID): the songs of the playlist, or an error
GetPlaylistSongsAnswers ==
    {[list |-> [i \in 1 .. Len(playlistTracks) |-> SongOf(playlistTracks[i])], err |-> Nil],
     [list |-> <<>>, err |-> <<"error", "list">>]}

\* the server's playlist after RemoveSongsFromPlaylist(playlistID, ids) succeeded
RemoveFrom(tracks, ids) ==
    SelectSeq(tracks, LAMBDA t : \A k \in 1 .. Len(ids) : ids[k] # t)

\* the server's playlist after AddSongsToPlaylist(playlistID, ids) succeeded
AddTo(tracks, ids) == tracks \o ids

\* a backend call as the server saw it
BackendCall(op, ids, err) == [op |-> op, ids |-> ids, err |-> err]

ReplacePlaylistTracksInit ==
    /\ rpPc = "idle"
    /\ playlistTracks = <<>>
    /\ rpOriginal = <<>>
    /\ rpTrackIDs = <<>>
    /\ rpTrs = <<>>
    /\ rpIdsToDelete = <<>>
    /\ rpErr = Nil
    /\ rpCalls = <<>>
    /\ rpRet = Unset

\* ReplacePlaylistTracks(playlistID, trackIDs) is entered; the playlist holds
\* some tracks
ReplacePlaylistTracksCall ==
    /\ rpPc = "idle"
    /\ \E tracks \in TrackLists :
          /\ playlistTracks' = tracks
          /\ rpOriginal' = tracks
    /\ rpTrackIDs' \in TrackLists
    /\ rpPc' = "list"
    /\ UNCHANGED <<rpTrs, rpIdsToDelete, rpErr, rpCalls, rpRet>>

\* trs, err := j.client.GetPlaylistSongs(playlistID)
RpGetPlaylistSongs ==
    /\ rpPc = "list"
    /\ \E a \in GetPlaylistSongsAnswers :
          /\ rpTrs' = a.list
          /\ rpErr' = a.err
          /\ rpCalls' = Append(rpCalls, BackendCall("list", <<>>, a.err))
    /\ rpPc' = "listed"
    /\ UNCHANGED <<playlistTracks, rpOriginal, rpTrackIDs, rpIdsToDelete, rpRet>>

\* (mutant) the error of a backend call is ignored
ReturnsNever(err) == FALSE

\* if err != nil { return err }
ReturnsEarly(err) == err # Nil

\* (mutant) the first track listed is left out
idsToDeleteButFirst(trs) == [i \in 1 .. (Len(trs) - 1) |-> trs[i + 1].Id]

\* idsToDelete := sharedutil.MapSlice(trs, func(t *jellyfin.Song) string { return t.Id })
idsToDelete(trs) == MapSlice(trs, [t \in Elems(trs) |-> t.Id])

\* the listing is checked: return err, or map the songs to their IDs
RpListed ==
    /\ rpPc = "listed"
    /\ IF ReturnsEarly(rpErr)
         THEN /\ rpRet' = rpErr
              /\ rpPc' = "returned"
              /\ UNCHANGED rpIdsToDelete
         ELSE /\ rpIdsToDelete' = idsToDelete(rpTrs)
              /\ rpPc' = "remove"
              /\ UNCHANGED rpRet
    /\ UNCHANGED <<playlistTracks, rpOriginal, rpTrackIDs, rpTrs, rpErr, rpCalls>>

\* err = j.client.RemoveSongsFromPlaylist(playlistID, idsToDelete)
RpRemoveSongs ==
    /\ rpPc = "remove"
    /\ \E e \in {Nil, <<"error", "remove">>} :
          /\ rpErr' = e
          /\ rpCalls' = Append(rpCalls, BackendCall("remove", rpIdsToDelete, e))
          /\ playlistTracks' = IF e = Nil THEN RemoveFrom(playlistTracks, rpIdsToDelete)
                                          ELSE playlistTracks
    /\ rpPc' = "removed"
    /\ UNCHANGED <<rpOriginal, rpTrackIDs, rpTrs, rpIdsToDelete, rpRet>>

\* the removal is checked: return err, or go on to the add
RpRemoved ==
    /\ rpPc = "removed"
    /\ IF ReturnsEarly(rpErr)
         THEN /\ rpRet' = rpErr
              /\ rpPc' = "returned"
         ELSE /\ rpPc' = "add"
              /\ UNCHANGED rpRet
    /\ UNCHANGED <<playlistTracks, rpOriginal, rpTrackIDs, rpTrs, rpIdsToDelete, rpErr,
                   rpCalls>>

\* return j.client.AddSongsToPlaylist(playlistID, trackIDs)
RpAddSongs ==
    /\ rpPc = "add"
    /\ \E e \in {Nil, <<"error", "add">>} :
          /\ rpRet' = e
          /\ rpCalls' = Append(rpCalls, BackendCall("add", rpTrackIDs, e))
          /\ playlistTracks' = IF e = Nil THEN AddTo(playlistTracks, rpTrackIDs)
                                          ELSE playlistTracks
    /\ rpPc' = "returned"
    /\ UNCHANGED <<rpOriginal, rpTrackIDs, rpTrs, rpIdsToDelete, rpErr>>

\* ------------------------------------------------------------------------
\* Properties of ReplacePlaylistTracks
\* ------------------------------------------------------------------------
RpReturned == rpPc = "returned"

\* the k-th backend call was made and failed
RpFailedAt(k) == Len(rpCalls) >= k /\ rpCalls[k].err # Nil

\* the k-th backend call was made and succeeded
RpSucceededAt(k) == Len(rpCalls) >= k /\ rpCalls[k].err = Nil

\* C15: the backend calls are, in this order, the listing, the removal of
\* exactly the IDs the playlist held and the addition of exactly the requested
\* IDs, each made only after the one before it succeeded; when the call has
\* returned, a failed step is the last one made and its error is returned,
\* and otherwise all three were made, once each, and the result of the add is
\* returned.
C15_ListRemoveAddInOrder ==
    /\ Len(rpCalls) <= 3
    /\ Len(rpCalls) >= 1 => rpCalls[1].op = "list"
    /\ Len(rpCalls) >= 2 =>
          /\ RpSucceededAt(1)
          /\ rpCalls[2].op = "remove"
          /\ rpCalls[2].ids = rpOriginal
    /\ Len(rpCalls) >= 3 =>
          /\ RpSucceededAt(2)
          /\ rpCalls[3].op = "add"
          /\ rpCalls[3].ids = rpTrackIDs
    /\ RpReturned =>
          /\ Len(rpCalls) >= 1
          /\ RpFailedAt(1) => (Len(rpCalls) = 1 /\ rpRet = rpCalls[1].err)
          /\ RpSucceededAt(1) => Len(rpCalls) >= 2
          /\ RpFailedAt(2) => (Len(rpCalls) = 2 /\ rpRet = rpCalls[2].err)
          /\ RpSucceededAt(2) => (Len(rpCalls) = 3 /\ rpRet = rpCalls[3].err)

\* an empty playlist is replaced by two tracks: one remove with no ID, then
\* one add with the two IDs
C15_Witness ==
    /\ RpReturned
    /\ rpOriginal = <<>>
    /\ rpTrackIDs = <<"t1", "t2">>
    /\ rpCalls = <<BackendCall("list", <<>>, Nil), BackendCall("remove", <<>>, Nil),
                   BackendCall("add", <<"t1", "t2">>, Nil)>>
    /\ rpRet = Nil

\* C16: when the removal succeeded and the add failed, the error of the add is
\* returned and the playlist is empty; when the listing or the removal
\* failed the playlist holds its original tracks, and when all three steps
\* succeeded it holds exactly the requested tracks.
C16_FailedAddLeavesPlaylistEmpty ==
    RpReturned =>
        /\ (RpSucceededAt(2) /\ RpFailedAt(3)) =>
              /\ rpRet = rpCalls[3].err
              /\ rpRet # Nil
              /\ playlistTracks = <<>>
        /\ (RpFailedAt(1) \/ RpFailedAt(2)) => playlistTracks = rpOriginal
        /\ (RpSucceededAt(2) /\ RpSucceededAt(3)) => playlistTracks = rpTrackIDs

\* a playlist of two tracks is emptied and the add of the new track fails
C16_Witness ==
    /\ RpReturned
    /\ rpOriginal = <<"t1", "t2">>
    /\ rpTrackIDs = <<"t2">>
    /\ RpSucceededAt(2)
    /\ RpFailedAt(3)
    /\ playlistTracks = <<>>
    /\ rpRet = <<"error", "add">>

\* ------------------------------------------------------------------------
\* The record adapters, as the provider uses them: sharedutil.MapSlice(x, toAlbum)
\* and the like
\* ------------------------------------------------------------------------
AdapterKinds == {"Track", "Album", "Artist", "Playlist"}

\* the backend records of a kind
SampleRecords(kind) ==
    CASE kind = "Track" -> SampleSongs
      [] kind = "Album" -> SampleAlbums
      [] kind = "Artist" -> SampleArtists
      [] kind = "Playlist" -> SamplePlaylists

\* the pointers a slice of that kind may hold: nil, or one to a record
Pointers(kind) == {NilPointer} \cup Elems(SampleRecords(kind))

\* the slices of at most MaxRecords pointers
PointerSlices(kind) == UNION {[1 .. n -> Pointers(kind)] : n \in 0 .. MaxRecords}

\* the adapter of a kind, applied to a pointer
Adapt(kind, p) ==
    CASE kind = "Track" -> toTrack(p)
      [] kind = "Album" -> toAlbum(p)
      [] kind = "Artist" -> toArtist(p)
      [] kind = "Playlist" -> toPlaylist(p)

AdaptersInit ==
    /\ adPc = "idle"
    /\ adKind = "Track"
    /\ adIn = <<>>
    /\ adOut = <<>>

\* a slice of backend records is handed to MapSlice with the adapter of its kind
AdapterMapCall ==
    /\ adPc = "idle"
    /\ \E kind \in AdapterKinds :
          /\ adKind' = kind
          /\ adIn' \in PointerSlices(kind)
    /\ adOut' = <<>>
    /\ adPc' = "mapping"

\* the adapter is applied to the next element: its record is stored, or it panics
AdapterMapStep ==
    /\ adPc = "mapping"
    /\ Len(adOut) < Len(adIn)
    /\ LET r == Adapt(adKind, adIn[Len(adOut) + 1]) IN
       IF IsPanic(r)
         THEN /\ adPc' = "panicked"
              /\ UNCHANGED adOut
         ELSE /\ adOut' = Append(adOut, r)
              /\ UNCHANGED adPc
    /\ UNCHANGED <<adKind, adIn>>

\* every element is mapped: MapSlice returns
AdapterMapReturn ==
    /\ adPc = "mapping"
    /\ Len(adOut) = Len(adIn)
    /\ adPc' = "returned"
    /\ UNCHANGED <<adKind, adIn, adOut>>

\* C17 (as claimed): no adapter fails: applied to a nil record it gives an
\* absent record, applied to a present record it gives a domain record, and
\* the mapping of a slice never ends in a panic.
C17_AdaptersAreTotal ==
    /\ adPc # "panicked"
    /\ \A i \in 1 .. Len(adOut) :
          IF IsNilPointer(adIn[i]) THEN IsNilPointer(adOut[i])
          ELSE ~IsNilPointer(adOut[i])

\* ------------------------------------------------------------------------
\* Properties of the three joins
\* ------------------------------------------------------------------------
\* a goroutine that was started and has not ended
Running == {"spawned", "inflight", "test", "write", "store"}

SetFavoriteJoined == \A idx \in Idx : sfG[idx] \notin Running

GetFavoritesJoined == \A c \in CategorySet : gfG[c] = "exited"

SearchAllJoined == \A q \in SubQuerySet : saG[q] = "exited"

\* the operation that was entered has returned, all its goroutines ended
JoinReturned ==
    \/ sfPc = "returned" /\ SetFavoriteJoined
    \/ gfPc = "returned" /\ GetFavoritesJoined
    \/ saPc = "returned" /\ SearchAllJoined

\* C18: SetFavorite, GetFavorites and SearchAll never return while one of
\* their goroutines is still running (for SetFavorite: every ID has had its
\* call and the goroutine of each has ended), and, under fair scheduling with
\* backend calls that return, the one of them that is entered eventually
\* returns, every sub-call it started having run to its end.
C18_JoinsNotRaces ==
    /\ [](sfPc \in {"return", "returned"} =>
             /\ SetFavoriteJoined
             /\ \A idx \in 0 .. (Len(allIDs) - 1) : sfG[idx] = "exited")
    /\ [](gfPc = "returned" => GetFavoritesJoined)
    /\ [](saPc = "returned" => SearchAllJoined)
    /\ <>JoinReturned

\* SetFavorite has returned after two batches, the second with a failed call
C18_Witness ==
    /\ sfPc = "returned"
    /\ Len(allIDs) = batchSize + 1
    /\ \A idx \in 0 .. batchSize : sfG[idx] = "exited"
    /\ sfNewErr[batchSize] # Nil
    /\ sfRet # Nil

\* how many entries of type t a result list holds
CountOfType(results, t) == Cardinality({i \in 1 .. Len(results) : results[i].Type = t})

Init ==
    /\ SetFavoriteInit
    /\ GetFavoritesInit
    /\ GetGenresInit
    /\ SearchAllInit
    /\ ReplacePlaylistTracksInit
    /\ AdaptersInit

SetFavoriteNext ==
    \/ SetFavoriteCall /\ UNCHANGED <<gfVars, ggVars, saVars, rpVars, adVars>>
    \/ SpawnOne /\ UNCHANGED <<gfVars, ggVars, saVars, rpVars, adVars>>
    \/ SpawnDone /\ UNCHANGED <<gfVars, ggVars, saVars, rpVars, adVars>>
    \/ BatchWait /\ UNCHANGED <<gfVars, ggVars, saVars, rpVars, adVars>>
    \/ SetFavoriteReturn /\ UNCHANGED <<gfVars, ggVars, saVars, rpVars, adVars>>
    \/ \E idx \in Idx : FavCallStart(idx) /\ UNCHANGED <<gfVars, ggVars, saVars, rpVars, adVars>>
    \/ \E idx \in Idx : FavCallReturn(idx) /\ UNCHANGED <<gfVars, ggVars, saVars, rpVars, adVars>>
    \/ \E idx \in Idx : FavTestErr(idx) /\ UNCHANGED <<gfVars, ggVars, saVars, rpVars, adVars>>
    \/ \E idx \in Idx : FavWriteErr(idx) /\ UNCHANGED <<gfVars, ggVars, saVars, rpVars, adVars>>

GetFavoritesNext ==
    \/ GetFavoritesCall /\ UNCHANGED <<sfVars, ggVars, saVars, rpVars, adVars>>
    \/ GfSpawn /\ UNCHANGED <<sfVars, ggVars, saVars, rpVars, adVars>>
    \/ \E c \in CategorySet : GfCallStart(c) /\ UNCHANGED <<sfVars, ggVars, saVars, rpVars, adVars>>
    \/ \E c \in CategorySet : GfCallReturn(c) /\ UNCHANGED <<sfVars, ggVars, saVars, rpVars, adVars>>
    \/ \E c \in CategorySet : GfStore(c) /\ UNCHANGED <<sfVars, ggVars, saVars, rpVars, adVars>>
    \/ GetFavoritesReturn /\ UNCHANGED <<sfVars, ggVars, saVars, rpVars, adVars>>

\* one caller, one call after the other
GetGenresNext ==
    \/ Tick /\ UNCHANGED <<sfVars, gfVars, saVars, rpVars, adVars>>
    \/ GenresCall(1) /\ UNCHANGED <<sfVars, gfVars, saVars, rpVars, adVars>>
    \/ GenresFetchFail(1) /\ UNCHANGED <<sfVars, gfVars, saVars, rpVars, adVars>>
    \/ GenresFetchOK(1) /\ UNCHANGED <<sfVars, gfVars, saVars, rpVars, adVars>>
    \/ GenresStamp(1) /\ UNCHANGED <<sfVars, gfVars, saVars, rpVars, adVars>>

SearchAllNext ==
    \/ SearchAllCall /\ UNCHANGED <<sfVars, gfVars, ggVars, rpVars, adVars>>
    \/ SaSpawn /\ UNCHANGED <<sfVars, gfVars, ggVars, rpVars, adVars>>
    \/ \E q \in SubQuerySet : SaCallStart(q) /\ UNCHANGED <<sfVars, gfVars, ggVars, rpVars, adVars>>
    \/ \E q \in SubQuerySet : SaCallReturn(q) /\ UNCHANGED <<sfVars, gfVars, ggVars, rpVars, adVars>>
    \/ \E q \in SubQuerySet : SaStore(q) /\ UNCHANGED <<sfVars, gfVars, ggVars, rpVars, adVars>>
    \/ SearchAllReturn /\ UNCHANGED <<sfVars, gfVars, ggVars, rpVars, adVars>>

\* two goroutines call GetGenres on the same provider; nothing orders their steps
GetGenresConcurrentNext ==
    \/ Tick /\ UNCHANGED <<sfVars, gfVars, saVars, rpVars, adVars>>
    \/ \E c \in Callers : GenresCall(c) /\ UNCHANGED <<sfVars, gfVars, saVars, rpVars, adVars>>
    \/ \E c \in Callers : GenresFetchFail(c) /\ UNCHANGED <<sfVars, gfVars, saVars, rpVars, adVars>>
    \/ \E c \in Callers : GenresFetchOK(c) /\ UNCHANGED <<sfVars, gfVars, saVars, rpVars, adVars>>
    \/ \E c \in Callers : GenresStamp(c) /\ UNCHANGED <<sfVars, gfVars, saVars, rpVars, adVars>>

ReplacePlaylistTracksNext ==
    \/ ReplacePlaylistTracksCall /\ UNCHANGED <<sfVars, gfVars, ggVars, saVars, adVars>>
    \/ RpGetPlaylistSongs /\ UNCHANGED <<sfVars, gfVars, ggVars, saVars, adVars>>
    \/ RpListed /\ UNCHANGED <<sfVars, gfVars, ggVars, saVars, adVars>>
    \/ RpRemoveSongs /\ UNCHANGED <<sfVars, gfVars, ggVars, saVars, adVars>>
    \/ RpRemoved /\ UNCHANGED <<sfVars, gfVars, ggVars, saVars, adVars>>
    \/ RpAddSongs /\ UNCHANGED <<sfVars, gfVars, ggVars, saVars, adVars>>

AdaptersNext ==
    \/ AdapterMapCall /\ UNCHANGED <<sfVars, gfVars, ggVars, saVars, rpVars>>
    \/ AdapterMapStep /\ UNCHANGED <<sfVars, gfVars, ggVars, saVars, rpVars>>
    \/ AdapterMapReturn /\ UNCHANGED <<sfVars, gfVars, ggVars, saVars, rpVars>>

\* a client enters one of the three operations that start goroutines and wait
\* for them
JoinsNext ==
    \/ /\ gfPc = "idle" /\ saPc = "idle"
       /\ SetFavoriteCallTwoBatches
       /\ UNCHANGED <<gfVars, ggVars, saVars, rpVars, adVars>>
    \/ sfPc # "idle" /\ SetFavoriteNext
    \/ sfPc = "idle" /\ saPc = "idle" /\ GetFavoritesNext
    \/ sfPc = "idle" /\ gfPc = "idle" /\ SearchAllNext

\* SearchAll with any maxResults an int can hold, negative ones included
SearchAllAnyMaxNext ==
    \/ SearchAllNext
    \/ SearchAllCallNegative /\ UNCHANGED <<sfVars, gfVars, ggVars, rpVars, adVars>>

\* the clock plays no part in SetFavorite, GetFavorites and SearchAll
InitClockZero == Init /\ now = 0

SpecSetFavorite == InitClockZero /\ [][SetFavoriteNext]_vars

SpecGetFavorites == InitClockZero /\ [][GetFavoritesNext]_vars

SpecGetGenres == Init /\ [][GetGenresNext]_vars

\* the provider is constructed late enough for its first call to fetch, and
\* the calls race within the seconds that follow
InitClockLate == Init /\ now >= MaxClock - 1

SpecGetGenresConcurrent == InitClockLate /\ [][GetGenresConcurrentNext]_vars

SpecSearchAll == InitClockZero /\ [][SearchAllNext]_vars

SpecReplacePlaylistTracks == InitClockZero /\ [][ReplacePlaylistTracksNext]_vars

SpecAdapters == InitClockZero /\ [][AdaptersNext]_vars

\* the scheduler runs a goroutine that can take a step, and a backend call
\* that was issued returns
SpecJoinsFair == InitClockZero /\ [][JoinsNext]_vars /\ WF_vars(JoinsNext)

SpecSearchAllAnyMax == InitClockZero /\ [][SearchAllAnyMaxNext]_vars

====
